---- MODULE Spec2Model ----
(***************************************************************************)
(* Agent-OS: the orchestrator context (response registry, timeline,        *)
(* correction links, multi-model fan-out), the Home page's send handler    *)
(* and the self-correction panel's link handler.                           *)
(*                                                                         *)
(* React state is modelled by its value after the event handler (or the    *)
(* timer continuation) that changes it has run: every setState call in the *)
(* source uses the functional form or a constant, so the queued updates of *)
(* one handler compose in program order into one atomic step.              *)
(***************************************************************************)
EXTENDS Integers, Sequences, FiniteSets, TLC

VARIABLES responses, timeline, correctionLinks, calls, nextId,
          prompt, selectedProviders, isLoading,
          searchQuery, selectedTag,
          storage, mediumUp, selectedProvider, apiKey, validating, validationResult

\* localStorage and the state of the ConnectionVault dialog
vaultVars == <<storage, mediumUp, selectedProvider, apiKey, validating, validationResult>>

vars == <<responses, timeline, correctionLinks, calls, nextId,
          prompt, selectedProviders, isLoading, searchQuery, selectedTag, vaultVars>>

(***************************************************************************)
(* Bounds of the model.                                                    *)
(***************************************************************************)
\* number of nanoid() values the model hands out (nodes, entries, links)
MaxIds == 3

(***************************************************************************)
(* Values.                                                                 *)
(***************************************************************************)
\* ModelProvider: the providers the model sends to
Providers == {"openai", "gemini"}

\* provider lists a caller can pass: no provider, one, two, and a repeated one
ProviderLists ==
  {<<>>} \cup {<<p>> : p \in Providers}
         \cup {<<p, q>> : p \in Providers, q \in Providers}

\* prompts are sequences of characters
Prompts == {<<>>, <<" ">>, <<"a">>, <<"b">>}

Statuses == {"loading", "success", "error"}

CorrectionTypes == {"code-review", "fact-check", "optimization"}

\* String.prototype.trim on a sequence of characters
RECURSIVE TrimStart(_)
TrimStart(s) ==
  IF s # <<>> /\ Head(s) = " " THEN TrimStart(Tail(s)) ELSE s

RECURSIVE TrimEnd(_)
TrimEnd(s) ==
  IF s # <<>> /\ s[Len(s)] = " " THEN TrimEnd(SubSeq(s, 1, Len(s) - 1)) ELSE s

Trim(s) == TrimEnd(TrimStart(s))

\* Array.prototype.includes
Includes(seq, x) == \E i \in 1..Len(seq) : seq[i] = x

\* Array.prototype.filter
Filter(seq, Keep(_)) == SelectSeq(seq, Keep)

\* Array.prototype.map
Map(seq, F(_)) == [i \in 1..Len(seq) |-> F(seq[i])]

\* object spread {...r, ...u}: the fields of u override and extend those of r
Merge(r, u) ==
  [f \in (DOMAIN r) \cup (DOMAIN u) |-> IF f \in DOMAIN u THEN u[f] ELSE r[f]]

\* Date.now(): a logical clock that never runs backwards
DateNow == nextId

\* the mocked provider answers
mockResponses ==
  [p \in Providers |->
     IF p = "openai"
     THEN "This is a response from OpenAI. I can help you with various tasks including coding, analysis, and creative writing."
     ELSE "Response from Google Gemini. I can assist with information retrieval, analysis, and problem-solving tasks."]

ErrorText(p) ==
  IF p = "openai" THEN "Error: Failed to get response from openai"
  ELSE "Error: Failed to get response from gemini"

\* ids a running call still has to draw: the id of its timeline entry
Reserved == Len(calls)

\* nanoid() can hand out n more ids without starving a running call
CanAllocate(n) == nextId + n + Reserved <= MaxIds + 1

(***************************************************************************)
(* Response registry.                                                      *)
(***************************************************************************)
\* the array addResponse's updater returns: prev with the new node appended
addResponse(prev, response, id) ==
  Append(prev, Merge(response, [id |-> id, timestamp |-> DateNow]))

\* the array updateResponse's updater returns
updateResponse(prev, id, updates) ==
  Map(prev, LAMBDA r : IF r.id = id THEN Merge(r, updates) ELSE r)

\* a removal by position, splice(findIndex(...), 1): without a node of that
\* id the position is -1 and the last node goes
removeResponseSplice(prev, id) ==
  IF \E j \in 1..Len(prev) : prev[j].id = id
  THEN Filter(prev, LAMBDA r : r.id # id)
  ELSE SubSeq(prev, 1, Len(prev) - 1)

\* the array removeResponse's updater returns
removeResponse(prev, id) == Filter(prev, LAMBDA r : r.id # id)

\* the array clearResponses sets
clearResponses == <<>>

\* nodes a caller passes to addResponse
NodeInputs ==
  {[provider |-> "openai", prompt |-> <<"b">>, response |-> "", status |-> "loading"],
   [provider |-> "gemini", prompt |-> <<"a">>, response |-> "manual", status |-> "success"]}

\* partial nodes a caller passes to updateResponse
NodeUpdates ==
  {[status |-> "loading"], [response |-> "manual", status |-> "error"]}

\* partial nodes that name the id or the timestamp: Partial<CanvasResponse>
\* has every field of a node
IdUpdates == {[id |-> 1], [timestamp |-> 0]}

NodeIds == {responses[i].id : i \in 1..Len(responses)}

AddResponse(response) ==
  /\ CanAllocate(1)
  /\ responses' = addResponse(responses, response, nextId)
  /\ nextId' = nextId + 1
  /\ UNCHANGED <<timeline, correctionLinks, calls, prompt, selectedProviders, isLoading, searchQuery, selectedTag, vaultVars>>

\* a registry whose nodes are shared with the recorded entries: an update
\* made in place would show in every entry that holds the node
UpdateResponseInPlace(id, updates) ==
  /\ responses' = updateResponse(responses, id, updates)
  /\ timeline' = Map(timeline, LAMBDA e :
                     Merge(e, [responses |-> updateResponse(e.responses, id, updates)]))
  /\ UNCHANGED <<correctionLinks, calls, nextId, prompt, selectedProviders, isLoading, searchQuery, selectedTag, vaultVars>>

UpdateResponse(id, updates) ==
  /\ responses' = updateResponse(responses, id, updates)
  /\ UNCHANGED <<timeline, correctionLinks, calls, nextId, prompt, selectedProviders, isLoading, searchQuery, selectedTag, vaultVars>>

RemoveResponse(id) ==
  /\ responses' = removeResponse(responses, id)
  /\ UNCHANGED <<timeline, correctionLinks, calls, nextId, prompt, selectedProviders, isLoading, searchQuery, selectedTag, vaultVars>>

ClearResponses ==
  /\ responses' = clearResponses
  /\ UNCHANGED <<timeline, correctionLinks, calls, nextId, prompt, selectedProviders, isLoading, searchQuery, selectedTag, vaultVars>>

(***************************************************************************)
(* Timeline.                                                               *)
(***************************************************************************)
\* a recording that drops an entry whose snapshot is empty
addTimelineEntrySkipEmpty(prev, entry, id) ==
  IF entry.responses = <<>> THEN prev
  ELSE <<Merge(entry, [id |-> id, timestamp |-> DateNow])>> \o prev

\* an updater that puts the new entry behind the older ones
addTimelineEntryAtEnd(prev, entry, id) ==
  prev \o <<Merge(entry, [id |-> id, timestamp |-> DateNow])>>

\* the array addTimelineEntry's updater returns: the new entry first
addTimelineEntry(prev, entry, id) ==
  <<Merge(entry, [id |-> id, timestamp |-> DateNow])>> \o prev

\* the array removeTimelineEntry's updater returns
removeTimelineEntry(prev, id) == Filter(prev, LAMBDA e : e.id # id)

\* entries a caller passes to addTimelineEntry
EntryInputs ==
  {[prompt |-> <<"b">>, providers |-> <<"gemini">>, tags |-> <<"t">>, responses |-> <<>>]}

AddTimelineEntry(entry) ==
  /\ CanAllocate(1)
  /\ timeline' = addTimelineEntry(timeline, entry, nextId)
  /\ nextId' = nextId + 1
  /\ UNCHANGED <<responses, correctionLinks, calls, prompt, selectedProviders, isLoading, searchQuery, selectedTag, vaultVars>>

RemoveTimelineEntry(id) ==
  /\ timeline' = removeTimelineEntry(timeline, id)
  /\ UNCHANGED <<responses, correctionLinks, calls, nextId, prompt, selectedProviders, isLoading, searchQuery, selectedTag, vaultVars>>

(***************************************************************************)
(* sendPromptToMultipleModels.  A running call is a record of its          *)
(* arguments, the position idx of its for loop (the provider whose timer   *)
(* is running), the responses array its closure captured when the callback *)
(* was created, and whether Home.handleSendPrompt awaits it.               *)
(***************************************************************************)
\* a registration that stops after the first provider
forEachAddResponseFirstOnly(prev, q, ps, id) ==
  IF ps = <<>> THEN prev
  ELSE addResponse(prev, [provider |-> Head(ps), prompt |-> q,
                          response |-> "", status |-> "loading"], id)

\* providers.forEach(addResponse): one loading node per element, in order
RECURSIVE forEachAddResponse(_, _, _, _)
forEachAddResponse(prev, q, ps, id) ==
  IF ps = <<>> THEN prev
  ELSE forEachAddResponse(
         addResponse(prev, [provider |-> Head(ps), prompt |-> q,
                            response |-> "", status |-> "loading"], id),
         q, Tail(ps), id + 1)

\* what the try block of one loop round can do: the timer promise only resolves
\* and the lookup of the mocked answer cannot throw, so the catch is never taken
Throws == {FALSE}

\* a round that inserts a node when it finds none of its provider loading
settleProviderUpsert(prev, p, threw) ==
  IF \E i \in 1..Len(prev) : prev[i].provider = p /\ prev[i].status = "loading"
  THEN Map(prev, LAMBDA r :
         IF r.provider = p /\ r.status = "loading"
         THEN Merge(r, [response |-> mockResponses[p], status |-> "success"])
         ELSE r)
  ELSE Append(prev, [id |-> 1, provider |-> p, prompt |-> <<>>, timestamp |-> DateNow,
                     response |-> mockResponses[p], status |-> "success"])

\* the array the loop round's updater returns for provider p
\* a completion that settles the provider's first loading node only (find
\* in place of map)
settleProviderFirstOnly(prev, p, threw) ==
  LET hits == {j \in 1..Len(prev) : prev[j].provider = p /\ prev[j].status = "loading"}
  IN [j \in 1..Len(prev) |->
        IF j \in hits /\ \A h \in hits : j <= h
        THEN Merge(prev[j], [response |-> mockResponses[p], status |-> "success"])
        ELSE prev[j]]

\* a completion that takes the provider's loading nodes out of the registry
\* instead of settling them
settleProviderDropping(prev, p, threw) ==
  Filter(prev, LAMBDA r : ~(r.provider = p /\ r.status = "loading"))

settleProvider(prev, p, threw) ==
  IF ~threw
  THEN Map(prev, LAMBDA r :
         IF r.provider = p /\ r.status = "loading"
         THEN Merge(r, [response |-> mockResponses[p], status |-> "success"])
         ELSE r)
  ELSE Map(prev, LAMBDA r :
         IF r.provider = p /\ r.status = "loading"
         THEN Merge(r, [response |-> ErrorText(p), status |-> "error"])
         ELSE r)

\* the entry the call records: filtered from the responses its closure holds
callEntry(q, ps, closure) ==
  [prompt |-> q, providers |-> ps, tags |-> <<>>,
   responses |-> Filter(closure, LAMBDA r : Includes(ps, r.provider) /\ r.prompt = q)]

RemoveAt(seq, i) == SubSeq(seq, 1, i - 1) \o SubSeq(seq, i + 1, Len(seq))

\* the synchronous part of a call: up to the first await, or to the end when
\* there is no provider to await
sendPromptBegin(q, ps, home) ==
  /\ CanAllocate(Len(ps) + 1)
  /\ responses' = forEachAddResponse(responses, q, ps, nextId)
  /\ IF ps = <<>>
     THEN /\ timeline' = addTimelineEntry(timeline, callEntry(q, ps, responses), nextId)
          /\ nextId' = nextId + 1
          /\ calls' = calls
     ELSE /\ timeline' = timeline
          /\ nextId' = nextId + Len(ps)
          /\ calls' = Append(calls, [prompt |-> q, providers |-> ps, idx |-> 1,
                                     closure |-> responses, home |-> home])

\* positions of the providers of running call c whose timer has been started
\* and has not fired: the loop awaits one timer before it starts the next
InFlight(c) == {c.idx}

\* a component other than Home calls sendPromptToMultipleModels
SendPrompt(q, ps) ==
  /\ sendPromptBegin(q, ps, FALSE)
  /\ UNCHANGED <<correctionLinks, prompt, selectedProviders, isLoading, searchQuery, selectedTag, vaultVars>>

\* a round after which the awaiting handler resumes at once, whether or not
\* it was the last
ProviderResolvesReleasingEarly(i) ==
  LET c == calls[i]
      p == c.providers[c.idx]
  IN /\ \E threw \in Throws : responses' = settleProvider(responses, p, threw)
     /\ IF c.idx < Len(c.providers)
        THEN /\ calls' = [calls EXCEPT ![i].idx = c.idx + 1]
             /\ isLoading' = IF c.home THEN FALSE ELSE isLoading
             /\ UNCHANGED <<timeline, nextId, prompt, selectedProviders>>
        ELSE /\ timeline' = addTimelineEntry(timeline,
                                callEntry(c.prompt, c.providers, c.closure), nextId)
             /\ nextId' = nextId + 1
             /\ calls' = RemoveAt(calls, i)
             /\ IF c.home
                THEN /\ prompt' = <<>>
                     /\ selectedProviders' = <<>>
                     /\ isLoading' = FALSE
                ELSE UNCHANGED <<prompt, selectedProviders, isLoading>>
     /\ UNCHANGED <<correctionLinks, searchQuery, selectedTag, vaultVars>>

\* the timer of running call i fires: the loop round of provider idx completes;
\* after the last round the entry is recorded and the awaiting handler resumes
ProviderResolves(i) ==
  LET c == calls[i]
      p == c.providers[c.idx]
  IN /\ \E threw \in Throws : responses' = settleProvider(responses, p, threw)
     /\ IF c.idx < Len(c.providers)
        THEN /\ calls' = [calls EXCEPT ![i].idx = c.idx + 1]
             /\ UNCHANGED <<timeline, nextId, prompt, selectedProviders, isLoading>>
        ELSE /\ timeline' = addTimelineEntry(timeline,
                                callEntry(c.prompt, c.providers, c.closure), nextId)
             /\ nextId' = nextId + 1
             /\ calls' = RemoveAt(calls, i)
             /\ IF c.home
                THEN /\ prompt' = <<>>
                     /\ selectedProviders' = <<>>
                     /\ isLoading' = FALSE
                ELSE UNCHANGED <<prompt, selectedProviders, isLoading>>
     /\ UNCHANGED <<correctionLinks, searchQuery, selectedTag, vaultVars>>

(***************************************************************************)
(* Correction links and the self-correction panel.                         *)
(***************************************************************************)
\* the array addCorrectionLink's updater returns
addCorrectionLink(prev, link, id) ==
  Append(prev, Merge(link, [id |-> id, timestamp |-> DateNow]))

\* the array removeCorrectionLink's updater returns
removeCorrectionLink(prev, id) == Filter(prev, LAMBDA l : l.id # id)

\* the array updateCorrectionLink's updater returns
\* an update that also stamps the link with the time of the update
updateCorrectionLinkStamped(prev, id, updates) ==
  Map(prev, LAMBDA l :
    IF l.id = id THEN Merge(Merge(l, updates), [timestamp |-> DateNow]) ELSE l)

updateCorrectionLink(prev, id, updates) ==
  Map(prev, LAMBDA l : IF l.id = id THEN Merge(l, updates) ELSE l)

\* links a caller passes to addCorrectionLink
LinkInputs ==
  {[sourceNodeId |-> a, sourceProvider |-> "deepseek",
    targetNodeId |-> b, targetProvider |-> "openai",
    correctionType |-> "fact-check", status |-> "pending"] :
     a \in NodeIds, b \in NodeIds}

\* partial links a caller passes to updateCorrectionLink
LinkUpdates == {[status |-> "completed", feedback |-> "looks good"]}

AddCorrectionLink(link) ==
  /\ CanAllocate(1)
  /\ correctionLinks' = addCorrectionLink(correctionLinks, link, nextId)
  /\ nextId' = nextId + 1
  /\ UNCHANGED <<responses, timeline, calls, prompt, selectedProviders, isLoading, searchQuery, selectedTag, vaultVars>>

RemoveCorrectionLink(id) ==
  /\ correctionLinks' = removeCorrectionLink(correctionLinks, id)
  /\ UNCHANGED <<responses, timeline, calls, nextId, prompt, selectedProviders, isLoading, searchQuery, selectedTag, vaultVars>>

UpdateCorrectionLink(id, updates) ==
  /\ correctionLinks' = updateCorrectionLink(correctionLinks, id, updates)
  /\ UNCHANGED <<responses, timeline, calls, nextId, prompt, selectedProviders, isLoading, searchQuery, selectedTag, vaultVars>>

\* no node selected in the panel
Null == 0

\* availableNodes.find((n) => n.id === id)?.provider || ''
ProviderOf(id) ==
  IF \E i \in 1..Len(responses) : responses[i].id = id
  THEN responses[CHOOSE i \in 1..Len(responses) :
                   /\ responses[i].id = id
                   /\ \A j \in 1..(i - 1) : responses[j].id # id].provider
  ELSE ""

\* Home.handleCreateCorrectionLink: the link with status pending set last
handleCreateCorrectionLink(prev, link, id) ==
  addCorrectionLink(prev, Merge(link, [status |-> "pending"]), id)

\* a handler that only checks that both selections are made
HandleCreateLinkUnchecked(selectedSource, selectedTarget, correctionType) ==
  /\ IF selectedSource = Null \/ selectedTarget = Null
     THEN UNCHANGED <<correctionLinks, nextId>>
     ELSE /\ CanAllocate(1)
          /\ correctionLinks' =
               addCorrectionLink(correctionLinks,
                 [sourceNodeId |-> selectedSource,
                  sourceProvider |-> ProviderOf(selectedSource),
                  targetNodeId |-> selectedTarget,
                  targetProvider |-> ProviderOf(selectedTarget),
                  correctionType |-> correctionType,
                  status |-> "pending"], nextId)
          /\ nextId' = nextId + 1
  /\ UNCHANGED <<responses, timeline, calls, prompt, selectedProviders, isLoading, searchQuery, selectedTag, vaultVars>>

\* SelfCorrectionPanel.handleCreateLink with the panel's selection
\* (selectedSource, selectedTarget, correctionType); it returns without a
\* link when a selection is missing or both selections are the same node
HandleCreateLink(selectedSource, selectedTarget, correctionType) ==
  /\ IF selectedSource = Null \/ selectedTarget = Null
     THEN UNCHANGED <<correctionLinks, nextId>>
     ELSE IF selectedSource = selectedTarget
     THEN UNCHANGED <<correctionLinks, nextId>>
     ELSE /\ CanAllocate(1)
          /\ correctionLinks' =
               handleCreateCorrectionLink(correctionLinks,
                 [sourceNodeId |-> selectedSource,
                  sourceProvider |-> ProviderOf(selectedSource),
                  targetNodeId |-> selectedTarget,
                  targetProvider |-> ProviderOf(selectedTarget),
                  correctionType |-> correctionType,
                  status |-> "pending"], nextId)
          /\ nextId' = nextId + 1
  /\ UNCHANGED <<responses, timeline, calls, prompt, selectedProviders, isLoading, searchQuery, selectedTag, vaultVars>>

(***************************************************************************)
(* Home page: the prompt text, the selected providers, the loading flag.   *)
(***************************************************************************)
\* the textarea's onChange
SetPrompt(q) ==
  /\ prompt' = q
  /\ UNCHANGED <<responses, timeline, correctionLinks, calls, nextId,
                 selectedProviders, isLoading, searchQuery, selectedTag, vaultVars>>

\* the array handleProviderToggle's updater returns
handleProviderToggle(prev, provider) ==
  IF Includes(prev, provider)
  THEN Filter(prev, LAMBDA p : p # provider)
  ELSE Append(prev, provider)

HandleProviderToggle(provider) ==
  /\ selectedProviders' = handleProviderToggle(selectedProviders, provider)
  /\ UNCHANGED <<responses, timeline, correctionLinks, calls, nextId, prompt, isLoading, searchQuery, selectedTag, vaultVars>>

\* a handler that tests the untrimmed prompt
HandleSendPromptUntrimmed ==
  IF prompt = <<>>
  THEN UNCHANGED vars
  ELSE IF Len(selectedProviders) = 0
  THEN UNCHANGED vars
  ELSE /\ isLoading' = TRUE
       /\ sendPromptBegin(prompt, selectedProviders, TRUE)
       /\ UNCHANGED <<correctionLinks, prompt, selectedProviders, searchQuery, selectedTag, vaultVars>>

\* handleSendPrompt up to its await: the two validations, then the call
HandleSendPrompt ==
  IF Trim(prompt) = <<>>
  THEN UNCHANGED vars
  ELSE IF Len(selectedProviders) = 0
  THEN UNCHANGED vars
  ELSE /\ isLoading' = TRUE
       /\ sendPromptBegin(prompt, selectedProviders, TRUE)
       /\ UNCHANGED <<correctionLinks, prompt, selectedProviders, searchQuery, selectedTag, vaultVars>>

\* handleSelectTimelineEntry with the i-th entry of the timeline
HandleSelectTimelineEntry(i) ==
  /\ prompt' = timeline[i].prompt
  /\ selectedProviders' = timeline[i].providers
  /\ UNCHANGED <<responses, timeline, correctionLinks, calls, nextId, isLoading, searchQuery, selectedTag, vaultVars>>

(***************************************************************************)
(* SemanticTimeline: the search over the timeline entries.                 *)
(***************************************************************************)
\* the characters of a provider name or of a tag
Chars(s) ==
  CASE s = "openai" -> <<"o", "p", "e", "n", "a", "i">>
    [] s = "gemini" -> <<"g", "e", "m", "i", "n", "i">>
    [] s = "Go" -> <<"G", "o">>
    [] s = "t" -> <<"t">>

\* String.prototype.toLowerCase, on the letters the model uses
toLowerCase(s) ==
  [i \in 1..Len(s) |->
     CASE s[i] = "A" -> "a"
       [] s[i] = "B" -> "b"
       [] s[i] = "E" -> "e"
       [] s[i] = "G" -> "g"
       [] s[i] = "O" -> "o"
       [] s[i] = "T" -> "t"
       [] OTHER -> s[i]]

\* String.prototype.includes
stringIncludes(s, q) ==
  \E i \in 0..(Len(s) - Len(q)) : SubSeq(s, i + 1, i + Len(q)) = q

\* the tags of all entries, for the tag buttons
allTags(entries) ==
  UNION {{entries[i].tags[k] : k \in 1..Len(entries[i].tags)} : i \in 1..Len(entries)}

\* a search that compares the query as typed with the lowered texts
filteredEntriesQueryAsTyped(entries, query, tag) ==
  Filter(entries, LAMBDA entry :
    LET matchesSearch ==
          \/ query = <<>>
          \/ stringIncludes(toLowerCase(entry.prompt), query)
          \/ \E k \in 1..Len(entry.tags) :
               stringIncludes(toLowerCase(Chars(entry.tags[k])), query)
          \/ \E k \in 1..Len(entry.providers) :
               stringIncludes(toLowerCase(Chars(entry.providers[k])), query)
        matchesTag == tag = <<>> \/ Includes(entry.tags, tag[1])
    IN matchesSearch /\ matchesTag)

\* filteredEntries; selectedTag is <<>> for null and <<tag>> for a tag
filteredEntries(entries, query, tag) ==
  Filter(entries, LAMBDA entry :
    LET matchesSearch ==
          \/ query = <<>>
          \/ stringIncludes(toLowerCase(entry.prompt), toLowerCase(query))
          \/ \E k \in 1..Len(entry.tags) :
               stringIncludes(toLowerCase(Chars(entry.tags[k])), toLowerCase(query))
          \/ \E k \in 1..Len(entry.providers) :
               stringIncludes(toLowerCase(Chars(entry.providers[k])), toLowerCase(query))
        matchesTag == tag = <<>> \/ Includes(entry.tags, tag[1])
    IN matchesSearch /\ matchesTag)

\* entries with tags that callers pass to addTimelineEntry
TaggedEntries ==
  {[prompt |-> <<"a", "B">>, providers |-> <<"openai">>, tags |-> <<"t">>,
    responses |-> <<>>],
   [prompt |-> <<"b">>, providers |-> <<"gemini">>, tags |-> <<"Go", "t">>,
    responses |-> <<>>],
   [prompt |-> <<"a">>, providers |-> <<"openai", "gemini">>, tags |-> <<>>,
    responses |-> <<>>]}

\* texts typed into the search field
Queries ==
  {<<>>, <<"a">>, <<"A">>, <<"B">>, <<"e", "N">>, <<"G", "O">>, <<"t">>, <<" ">>}

\* the search field's onChange
SetSearchQuery(q) ==
  /\ searchQuery' = q
  /\ UNCHANGED <<responses, timeline, correctionLinks, calls, nextId,
                 prompt, selectedProviders, isLoading, selectedTag, vaultVars>>

\* the tag buttons: "All", and one per tag of the entries, shown when there
\* is a tag
SetSelectedTag(tag) ==
  /\ allTags(timeline) # {}
  /\ IF tag = <<>> THEN TRUE ELSE tag[1] \in allTags(timeline)
  /\ selectedTag' = tag
  /\ UNCHANGED <<responses, timeline, correctionLinks, calls, nextId,
                 prompt, selectedProviders, isLoading, searchQuery, vaultVars>>

(***************************************************************************)
(* SecureStorage, validateAPIKey and the ConnectionVault dialog.           *)
(***************************************************************************)
\* the providers in the order getSavedProviders lists them
StorageProviders == <<"openai", "gemini", "deepseek", "qwen">>

\* ModelProvider
AllProviders == {StorageProviders[i] : i \in 1..Len(StorageProviders)}

\* API keys are sequences of characters
ApiKeys == {<<>>, <<" ">>, <<"k">>, <<"j">>}

\* localStorage holds, under the key of a provider, nothing (<<>>, getItem
\* gives null) or one string (<<s>>); when the medium is not available
\* every access to it throws, and each operation catches that

\* saveKey that stores the key trimmed
saveKeyTrimmed(store, up, provider, key) ==
  IF up THEN [store EXCEPT ![provider] = <<Trim(key)>>] ELSE store

\* the storage after saveKey
saveKey(store, up, provider, key) ==
  IF up THEN [store EXCEPT ![provider] = <<key>>] ELSE store

\* getKey that answers from the store whether or not it can be read
getKeyUnguarded(store, up, provider) == store[provider]

\* what getKey returns: <<>> for null
getKey(store, up, provider) ==
  IF up THEN store[provider] ELSE <<>>

hasKey(store, up, provider) == getKey(store, up, provider) # <<>>

\* the storage after deleteKey
deleteKey(store, up, provider) ==
  IF up THEN [store EXCEPT ![provider] = <<>>] ELSE store

\* getSavedProviders that lists the saved providers last first
getSavedProvidersReversed(store, up) ==
  LET saved == Filter(StorageProviders, LAMBDA p : hasKey(store, up, p))
  IN [i \in 1..Len(saved) |-> saved[Len(saved) + 1 - i]]

getSavedProviders(store, up) ==
  Filter(StorageProviders, LAMBDA p : hasKey(store, up, p))

\* a caller saves a key
SaveKey(provider, key) ==
  /\ storage' = saveKey(storage, mediumUp, provider, key)
  /\ UNCHANGED <<responses, timeline, correctionLinks, calls, nextId,
                 prompt, selectedProviders, isLoading, searchQuery, selectedTag,
                 mediumUp, selectedProvider, apiKey, validating, validationResult>>

\* a caller deletes a key
DeleteKey(provider) ==
  /\ storage' = deleteKey(storage, mediumUp, provider)
  /\ UNCHANGED <<responses, timeline, correctionLinks, calls, nextId,
                 prompt, selectedProviders, isLoading, searchQuery, selectedTag,
                 mediumUp, selectedProvider, apiKey, validating, validationResult>>

\* the browser makes localStorage unavailable, or available again
MediumChanges ==
  /\ mediumUp' = ~mediumUp
  /\ UNCHANGED <<responses, timeline, correctionLinks, calls, nextId,
                 prompt, selectedProviders, isLoading, searchQuery, selectedTag,
                 storage, selectedProvider, apiKey, validating, validationResult>>

\* an empty check that does not trim the key
RejectedAtOnceUntrimmed(key) == key = <<>>

\* validateAPIKey returns at once for a key that is empty or blank
RejectedAtOnce(key) == key = <<>> \/ Len(Trim(key)) = 0

EmptyKeyResult(provider) ==
  [success |-> FALSE, message |-> "API key cannot be empty",
   provider |-> provider, timestamp |-> DateNow]

\* how the request of a validator can end: response.ok, a response that is
\* not ok, and a failed fetch
FetchOutcomes == {"ok", "not ok", "throws"}

\* what validateOpenAIKey, validateGeminiKey, validateDeepSeekKey and
\* validateQwenKey return
ValidatorResult(provider, outcome) ==
  [success |-> outcome = "ok",
   message |-> CASE outcome = "ok" -> "API key validated successfully"
                 [] outcome = "not ok" -> "Invalid API key"
                 [] outcome = "throws" -> "Connection error: Unknown error",
   provider |-> provider, timestamp |-> DateNow]

\* the dialog's provider select
SetSelectedProvider(provider) ==
  /\ selectedProvider' = provider
  /\ UNCHANGED <<responses, timeline, correctionLinks, calls, nextId,
                 prompt, selectedProviders, isLoading, searchQuery, selectedTag,
                 storage, mediumUp, apiKey, validating, validationResult>>

\* the dialog's key input
SetApiKey(key) ==
  /\ apiKey' = key
  /\ UNCHANGED <<responses, timeline, correctionLinks, calls, nextId,
                 prompt, selectedProviders, isLoading, searchQuery, selectedTag,
                 storage, mediumUp, selectedProvider, validating, validationResult>>

\* handleValidateAndSave up to the request of the validator: validating
\* holds the provider and key the handler was called with while the request
\* is under way (isValidating).  For an empty or blank key validateAPIKey
\* makes no request, and the handler runs to its end.
HandleValidateAndSave ==
  /\ validating = <<>>
  /\ IF RejectedAtOnce(apiKey)
     THEN /\ validationResult' = <<EmptyKeyResult(selectedProvider)>>
          /\ validating' = <<>>
     ELSE /\ validationResult' = <<>>
          /\ validating' = <<[provider |-> selectedProvider, apiKey |-> apiKey]>>
  /\ UNCHANGED <<responses, timeline, correctionLinks, calls, nextId,
                 prompt, selectedProviders, isLoading, searchQuery, selectedTag,
                 storage, mediumUp, selectedProvider, apiKey>>

\* the rest of handleValidateAndSave that saves whatever the validator says
ValidationResolvesSavingAlways(outcome) ==
  /\ validating # <<>>
  /\ validationResult' = <<ValidatorResult(validating[1].provider, outcome)>>
  /\ storage' = saveKey(storage, mediumUp, validating[1].provider, validating[1].apiKey)
  /\ apiKey' = <<>>
  /\ validating' = <<>>
  /\ UNCHANGED <<responses, timeline, correctionLinks, calls, nextId,
                 prompt, selectedProviders, isLoading, searchQuery, selectedTag,
                 mediumUp, selectedProvider>>

\* the rest of handleValidateAndSave, when the validator's request has ended
ValidationResolves(outcome) ==
  /\ validating # <<>>
  /\ validationResult' = <<ValidatorResult(validating[1].provider, outcome)>>
  /\ IF outcome = "ok"
     THEN /\ storage' = saveKey(storage, mediumUp, validating[1].provider,
                                validating[1].apiKey)
          /\ apiKey' = <<>>
     ELSE UNCHANGED <<storage, apiKey>>
  /\ validating' = <<>>
  /\ UNCHANGED <<responses, timeline, correctionLinks, calls, nextId,
                 prompt, selectedProviders, isLoading, searchQuery, selectedTag,
                 mediumUp, selectedProvider>>

\* handleRemoveProvider
HandleRemoveProvider(provider) ==
  /\ storage' = deleteKey(storage, mediumUp, provider)
  /\ UNCHANGED <<responses, timeline, correctionLinks, calls, nextId,
                 prompt, selectedProviders, isLoading, searchQuery, selectedTag,
                 mediumUp, selectedProvider, apiKey, validating, validationResult>>

(***************************************************************************)
(* Specifications.                                                         *)
(***************************************************************************)
Init ==
  /\ responses = <<>>
  /\ timeline = <<>>
  /\ correctionLinks = <<>>
  /\ calls = <<>>
  /\ nextId = 1
  /\ prompt = <<>>
  /\ selectedProviders = <<>>
  /\ isLoading = FALSE
  /\ searchQuery = <<>>
  /\ selectedTag = <<>>
  /\ storage = [p \in AllProviders |-> <<>>]
  /\ mediumUp = TRUE
  /\ selectedProvider = "openai"
  /\ apiKey = <<>>
  /\ validating = <<>>
  /\ validationResult = <<>>

Next ==
  \/ \E r \in NodeInputs : AddResponse(r)
  \/ \E id \in 1..(nextId - 1), u \in NodeUpdates : UpdateResponse(id, u)
  \/ \E id \in 1..(nextId - 1) : RemoveResponse(id)
  \/ ClearResponses
  \/ \E e \in EntryInputs : AddTimelineEntry(e)
  \/ \E id \in 1..(nextId - 1) : RemoveTimelineEntry(id)
  \/ \E q \in Prompts, ps \in ProviderLists : SendPrompt(q, ps)
  \/ \E i \in 1..Len(calls) : ProviderResolves(i)
  \/ \E l \in LinkInputs : AddCorrectionLink(l)
  \/ \E id \in 1..(nextId - 1) : RemoveCorrectionLink(id)
  \/ \E id \in 1..(nextId - 1), u \in LinkUpdates : UpdateCorrectionLink(id, u)
  \/ \E s \in NodeIds \cup {Null}, t \in NodeIds \cup {Null}, k \in CorrectionTypes :
       HandleCreateLink(s, t, k)

Spec == Init /\ [][Next]_vars

\* the Home page as the caller of the context, next to other callers of it
NextHome ==
  \/ \E q \in Prompts : SetPrompt(q)
  \/ \E p \in Providers : HandleProviderToggle(p)
  \/ HandleSendPrompt
  \/ \E i \in 1..Len(timeline) : HandleSelectTimelineEntry(i)
  \/ \E i \in 1..Len(calls) : ProviderResolves(i)
  \/ \E q \in Prompts, ps \in ProviderLists : SendPrompt(q, ps)
  \/ \E id \in 1..(nextId - 1) : RemoveResponse(id)
  \/ ClearResponses
  \/ \E id \in 1..(nextId - 1) : RemoveTimelineEntry(id)

HomeSpec == Init /\ [][NextHome]_vars

\* the registry and the calls alone, with the timers of the running calls
\* firing: a timer that is set goes off (setTimeout, part_000 154), so a
\* round that can complete does not wait forever
NextFair ==
  \/ \E r \in NodeInputs : AddResponse(r)
  \/ \E id \in 1..(nextId - 1), u \in NodeUpdates : UpdateResponse(id, u)
  \/ \E id \in 1..(nextId - 1) : RemoveResponse(id)
  \/ ClearResponses
  \/ \E q \in Prompts, ps \in ProviderLists : SendPrompt(q, ps)
  \/ \E i \in 1..Len(calls) : ProviderResolves(i)

TimerFires(i) == i <= Len(calls) /\ ProviderResolves(i)

\* a running call holds an id for its entry besides the ids of its nodes
MaxCalls == MaxIds \div 2

FairSpec ==
  Init /\ [][NextFair]_vars /\ \A i \in 1..MaxCalls : WF_vars(TimerFires(i))

\* the timeline dialog: entries are recorded and removed, the user types a
\* query and picks a tag
NextSearch ==
  \/ \E e \in TaggedEntries : AddTimelineEntry(e)
  \/ \E id \in 1..(nextId - 1) : RemoveTimelineEntry(id)
  \/ \E q \in Queries : SetSearchQuery(q)
  \/ \E t \in {<<>>} \cup {<<g>> : g \in allTags(timeline)} : SetSelectedTag(t)

SearchSpec == Init /\ [][NextSearch]_vars

\* SecureStorage as its callers see it, on a medium that comes and goes
NextStore ==
  \/ \E p \in AllProviders, k \in ApiKeys : SaveKey(p, k)
  \/ \E p \in AllProviders : DeleteKey(p)
  \/ MediumChanges

StoreSpec == Init /\ [][NextStore]_vars

\* the ConnectionVault dialog, on a medium that comes and goes
NextVault ==
  \/ \E p \in AllProviders : SetSelectedProvider(p)
  \/ \E k \in ApiKeys : SetApiKey(k)
  \/ HandleValidateAndSave
  \/ \E o \in FetchOutcomes : ValidationResolves(o)
  \/ \E p \in AllProviders : HandleRemoveProvider(p)
  \/ MediumChanges

VaultSpec == Init /\ [][NextVault]_vars

\* the sidebar's model selection and prompt sections are rendered when
\* getSavedProviders, read as Home renders, lists a provider
SidebarShown == getSavedProviders(storage, mediumUp) # <<>>

\* the user types into the prompt textarea
TypePrompt(q) == SidebarShown /\ SetPrompt(q)

\* the user clicks the checkbox of a provider: there is one per saved provider
ClickProvider(provider) ==
  /\ SidebarShown
  /\ Includes(getSavedProviders(storage, mediumUp), provider)
  /\ HandleProviderToggle(provider)

\* the send button's disabled attribute
SendDisabled == isLoading \/ Len(selectedProviders) = 0 \/ Trim(prompt) = <<>>

\* the user clicks the send button
ClickSend == SidebarShown /\ ~SendDisabled /\ HandleSendPrompt

\* the app as its user drives it: the sidebar of Home, the timeline dialog,
\* the timers of the running fan-out, and the vault saving and removing keys
\* on a medium that comes and goes
NextApp ==
  \/ \E q \in Prompts : TypePrompt(q)
  \/ \E p \in Providers : ClickProvider(p)
  \/ ClickSend
  \/ \E i \in 1..Len(timeline) : HandleSelectTimelineEntry(i)
  \/ \E id \in 1..(nextId - 1) : RemoveTimelineEntry(id)
  \/ \E i \in 1..Len(calls) : ProviderResolves(i)
  \/ \E p \in Providers : SaveKey(p, <<"k">>)
  \/ \E p \in Providers : HandleRemoveProvider(p)
  \/ MediumChanges

AppSpec == Init /\ [][NextApp]_vars

\* the registry alone, with callers of updateResponse that pass any field
NextRegistry ==
  \/ \E r \in NodeInputs : AddResponse(r)
  \/ \E id \in 1..(nextId - 1), u \in NodeUpdates \cup IdUpdates : UpdateResponse(id, u)
  \/ \E id \in 1..(nextId - 1) : RemoveResponse(id)
  \/ ClearResponses

RegistrySpec == Init /\ [][NextRegistry]_vars

(***************************************************************************)
(* Claims.                                                                 *)
(***************************************************************************)
\* the step appends one loading node per element of ps, in order, with prompt
\* q, an empty response and a fresh id, changes no older node, and leaves the
\* new call at its first provider with no round completed
RegisteredPending(q, ps) ==
  /\ Len(responses') = Len(responses) + Len(ps)
  /\ SubSeq(responses', 1, Len(responses)) = responses
  /\ \A k \in 1..Len(ps) :
       LET r == responses'[Len(responses) + k]
       IN /\ r.provider = ps[k]
          /\ r.prompt = q
          /\ r.status = "loading"
          /\ r.response = ""
          /\ r.id \notin NodeIds
          /\ \A j \in 1..(Len(responses) + k - 1) : responses'[j].id # r.id
  /\ ps # <<>> =>
       /\ Len(calls') = Len(calls) + 1
       /\ SubSeq(calls', 1, Len(calls)) = calls
       /\ calls'[Len(calls')].idx = 1
       /\ calls'[Len(calls')].providers = ps

\* C1: every sendPromptToMultipleModels call with a non-empty prompt and n
\* providers adds exactly n loading nodes, one per requested provider, and all
\* of them are registered before any provider call of that fan-out resolves.
\* (Every call draws an id, so a step that draws none is no call.)
C1_RegistersPendingFirst ==
  [][nextId' # nextId =>
       \A q \in Prompts, ps \in ProviderLists :
         (q # <<>> /\ SendPrompt(q, ps)) => RegisteredPending(q, ps)]_vars

\* a call over two providers has just begun: the registry is what the call
\* saw plus its two loading nodes, and no round of it has completed
C1_Witness ==
  \E i \in 1..Len(calls) :
    /\ calls[i].idx = 1
    /\ Len(calls[i].providers) = 2
    /\ Len(responses) = Len(calls[i].closure) + 2
    /\ SubSeq(responses, 1, Len(calls[i].closure)) = calls[i].closure
    /\ \A k \in 1..2 :
         /\ responses[Len(calls[i].closure) + k].status = "loading"
         /\ responses[Len(calls[i].closure) + k].provider = calls[i].providers[k]

\* C2: within one fan-out the provider calls run concurrently: every provider
\* of a running call whose round has not completed has its call in flight, so
\* that any of them can complete next and none waits for a slower one.
C2_CallsRunConcurrently ==
  \A i \in 1..Len(calls) :
    \A k \in calls[i].idx..Len(calls[i].providers) : k \in InFlight(calls[i])

\* C3: when a round of a call with prompt q completes for provider p, the
\* only nodes that change are loading nodes with provider p and prompt q.
C3_OnlyMatchingPromptChanges ==
  [][\A i \in 1..Len(calls) :
       (ProviderResolves(i) /\ Trim(calls[i].prompt) # <<>>) =>
         \A j \in 1..Len(responses) :
           (j <= Len(responses') /\ responses'[j] # responses[j]) =>
             /\ responses[j].provider = calls[i].providers[calls[i].idx]
             /\ responses[j].status = "loading"
             /\ responses[j].prompt = calls[i].prompt]_vars

\* C4: the completion of a provider call never adds a node: the registry has
\* the same ids in the same order after it, so a node removed while its call
\* was in flight is not inserted again.
C4_CompletionNeverInserts ==
  [][\A i \in 1..Len(calls) :
       ProviderResolves(i) =>
         /\ Len(responses') = Len(responses)
         /\ \A j \in 1..Len(responses) : responses'[j].id = responses[j].id]_vars

\* the first round of a call over two providers has completed, the registry
\* holds no node of that first provider any more (it was removed), and the
\* node of the second provider is still loading
C4_Witness ==
  \E i \in 1..Len(calls) :
    /\ calls[i].idx = 2
    /\ calls[i].providers[1] # calls[i].providers[2]
    /\ \A j \in 1..Len(responses) : responses[j].provider # calls[i].providers[1]
    /\ \E j \in 1..Len(responses) :
         /\ responses[j].provider = calls[i].providers[2]
         /\ responses[j].prompt = calls[i].prompt
         /\ responses[j].status = "loading"

\* C5: a node that is success or error keeps that status in every step,
\* whatever operation the step is.
C5_SettledStatusIsFinal ==
  [][\A j \in 1..Len(responses), k \in 1..Len(responses') :
       (responses'[k].id = responses[j].id /\ responses[j].status # "loading") =>
         responses'[k].status = responses[j].status]_vars

\* C6: after removeResponse(id) no correction link has id as its source or
\* its target.
C6_RemoveCascadesToLinks ==
  [][\A id \in 1..(nextId - 1) :
       RemoveResponse(id) =>
         \A l \in 1..Len(correctionLinks') :
           /\ correctionLinks'[l].sourceNodeId # id
           /\ correctionLinks'[l].targetNodeId # id]_vars

\* C7: after clearResponses every remaining correction link has both its
\* endpoints in the registry.
C7_ClearCascadesToLinks ==
  [][ClearResponses =>
       \A l \in 1..Len(correctionLinks') :
         /\ correctionLinks'[l].sourceNodeId \in NodeIds'
         /\ correctionLinks'[l].targetNodeId \in NodeIds']_vars

\* C8 as claimed: no reachable state holds a link from a node to itself.
C8_NoSelfLinkAnywhere ==
  \A l \in 1..Len(correctionLinks) :
    correctionLinks[l].sourceNodeId # correctionLinks[l].targetNodeId

\* C8 as amended: SelfCorrectionPanel.handleCreateLink with the same node as
\* source and target leaves the correction links unchanged for every node and
\* every correction type: whenever a step of that handler changes the links,
\* its source and target differ and the change is one appended link between
\* them (addCorrectionLink itself makes no such check).
C8_PanelRejectsSelfLink ==
  [][correctionLinks' # correctionLinks =>
       \A s \in NodeIds \cup {Null}, t \in NodeIds \cup {Null}, k \in CorrectionTypes :
         HandleCreateLink(s, t, k) =>
           /\ s # t
           /\ Len(correctionLinks') = Len(correctionLinks) + 1
           /\ SubSeq(correctionLinks', 1, Len(correctionLinks)) = correctionLinks
           /\ correctionLinks'[Len(correctionLinks')].sourceNodeId = s
           /\ correctionLinks'[Len(correctionLinks')].targetNodeId = t]_vars

\* the panel has created a link between two different nodes of the registry
\* (only the panel labels a link with its nodes' providers), and each of the
\* two nodes could have been selected as source and target at once
C8_Witness ==
  \E l \in 1..Len(correctionLinks) :
    /\ correctionLinks[l].sourceNodeId \in NodeIds
    /\ correctionLinks[l].targetNodeId \in NodeIds
    /\ correctionLinks[l].sourceNodeId # correctionLinks[l].targetNodeId
    /\ correctionLinks[l].sourceProvider = ProviderOf(correctionLinks[l].sourceNodeId)
    /\ correctionLinks[l].correctionType = "optimization"

\* C9 as claimed: a fan-out with a blank prompt or without a provider changes
\* neither the registry nor the timeline.
C9_InvalidFanOutChangesNothing ==
  [][/\ \A q \in Prompts, ps \in ProviderLists :
          (SendPrompt(q, ps) /\ (Trim(q) = <<>> \/ ps = <<>>)) =>
            UNCHANGED <<responses, timeline>>
     /\ (HandleSendPrompt /\ (Trim(prompt) = <<>> \/ selectedProviders = <<>>)) =>
            UNCHANGED <<responses, timeline>>]_vars

\* C9 as amended: Home.handleSendPrompt with a blank prompt or without a
\* selected provider changes neither the registry nor the timeline and starts
\* no call (sendPromptToMultipleModels itself makes no such check).
C9_HomeRejectsInvalidSend ==
  [][(HandleSendPrompt /\ (Trim(prompt) = <<>> \/ selectedProviders = <<>>)) =>
       UNCHANGED <<responses, timeline, calls, isLoading>>]_vars

\* Home holds a prompt of whitespace only and a selected provider, it is not
\* loading, and nothing has been sent: registry, timeline and calls are empty
C9_Witness ==
  /\ prompt # <<>>
  /\ Trim(prompt) = <<>>
  /\ selectedProviders # <<>>
  /\ ~isLoading
  /\ responses = <<>>
  /\ timeline = <<>>
  /\ calls = <<>>

\* the step puts one new entry with prompt q and providers ps in front of the
\* timeline and keeps the older entries
RecordsOne(q, ps) ==
  /\ Len(timeline') = Len(timeline) + 1
  /\ Tail(timeline') = timeline
  /\ Head(timeline').prompt = q
  /\ Head(timeline').providers = ps

\* C10: a call records exactly one entry, with its own prompt and provider
\* list, in the step that ends it, and none before; a call never ends without
\* it; and no step other than the end of a call or addTimelineEntry adds an
\* entry.  (Every call draws an id, so a step that draws none begins no call.)
C10_OneEntryPerCall ==
  [][/\ \A i \in 1..Len(calls) :
          ProviderResolves(i) =>
            IF calls[i].idx = Len(calls[i].providers)
            THEN RecordsOne(calls[i].prompt, calls[i].providers)
            ELSE timeline' = timeline
     /\ nextId' # nextId =>
          \A q \in Prompts, ps \in ProviderLists :
            SendPrompt(q, ps) =>
              IF ps = <<>> THEN RecordsOne(q, ps) ELSE timeline' = timeline
     /\ Len(calls') < Len(calls) => Len(timeline') = Len(timeline) + 1
     /\ Len(timeline') > Len(timeline) =>
          \/ \E i \in 1..Len(calls) :
               ProviderResolves(i) /\ calls[i].idx = Len(calls[i].providers)
          \/ \E q \in Prompts : SendPrompt(q, <<>>)
          \/ \E e \in EntryInputs : AddTimelineEntry(e)]_vars

\* a call over two providers has ended after one of its two nodes was
\* removed: its entry is the only one, and one node is left, settled
C10_Witness ==
  /\ calls = <<>>
  /\ Len(timeline) = 1
  /\ Len(timeline[1].providers) = 2
  /\ timeline[1].tags = <<>>
  /\ Len(responses) = 1
  /\ responses[1].prompt = timeline[1].prompt
  /\ responses[1].status = "success"

\* the registry nodes a fan-out over providers ps with prompt q is about
BatchNodes(reg, q, ps) ==
  Filter(reg, LAMBDA r : Includes(ps, r.provider) /\ r.prompt = q)

\* C11: the responses of the entry a call records are the nodes the registry
\* holds, in the step that records it, for the call's providers and prompt;
\* so they include the call's own nodes that were not removed.
C11_SnapshotIsRegistryAtRecording ==
  [][Len(timeline') > Len(timeline) =>
       \A i \in 1..Len(calls) :
         (ProviderResolves(i) /\ calls[i].idx = Len(calls[i].providers)) =>
           Head(timeline').responses =
             BatchNodes(responses', calls[i].prompt, calls[i].providers)]_vars

\* C12: the entry of a call is recorded as soon as its provider calls have
\* been initiated, without waiting for any of them: the step that begins a
\* call puts the call's entry in front of the timeline, while the call's
\* nodes are still loading.
C12_RecordedAtDispatch ==
  [][nextId' # nextId =>
       \A q \in Prompts, ps \in ProviderLists :
         SendPrompt(q, ps) => RecordsOne(q, ps)]_vars

\* every entry of the timeline is still there after the step, unchanged in
\* every field, behind the entries the step may have put in front
EntriesKept ==
  /\ Len(timeline') >= Len(timeline)
  /\ SubSeq(timeline', Len(timeline') - Len(timeline) + 1, Len(timeline')) = timeline

\* C13: updateResponse, removeResponse, clearResponses and the completion of
\* a provider call leave every recorded entry as it was recorded: prompt,
\* providers, tags and the recorded nodes with their status and response.
\* (Each of these steps changes the registry or the running calls.)
C13_RegistryLeavesHistory ==
  [][(responses' # responses \/ calls' # calls) =>
       ((\/ \E id \in 1..(nextId - 1), u \in NodeUpdates : UpdateResponse(id, u)
         \/ \E id \in 1..(nextId - 1) : RemoveResponse(id)
         \/ ClearResponses
         \/ \E i \in 1..Len(calls) : ProviderResolves(i)) => EntriesKept)]_vars

\* an entry holds a node as success that the registry still has, under the
\* same id, with another status: the node was updated after the recording
C13_Witness ==
  \E e \in 1..Len(timeline) :
    \E k \in 1..Len(timeline[e].responses) :
      \E j \in 1..Len(responses) :
        /\ responses[j].id = timeline[e].responses[k].id
        /\ timeline[e].responses[k].status = "success"
        /\ responses[j].status # "success"

\* a node without the two fields a completion writes
Settleless(r) == [r EXCEPT !.status = "", !.response = ""]

\* C14: a call over n providers appends n nodes to the registry, one per
\* provider; from then on no step other than removeResponse or clearResponses
\* makes the registry shorter, no step other than a call or addResponse makes
\* it longer, and those append behind the nodes that are there; every node has
\* one of the three statuses; and a completion keeps every node in its place
\* and changes nothing but status and response.
C14_BatchKeepsItsNodes ==
  [][responses' # responses =>
       /\ Len(responses') < Len(responses) =>
            (ClearResponses \/ \E id \in 1..(nextId - 1) : RemoveResponse(id))
       /\ Len(responses') > Len(responses) =>
            /\ SubSeq(responses', 1, Len(responses)) = responses
            /\ \/ \E r \in NodeInputs : AddResponse(r)
               \/ \E q \in Prompts, ps \in ProviderLists :
                    /\ SendPrompt(q, ps)
                    /\ Len(responses') = Len(responses) + Len(ps)
                    /\ \A k \in 1..Len(ps) :
                         /\ responses'[Len(responses) + k].provider = ps[k]
                         /\ responses'[Len(responses) + k].prompt = q
       /\ \A j \in 1..Len(responses') : responses'[j].status \in Statuses
       /\ \A i \in 1..Len(calls) :
            ProviderResolves(i) =>
              /\ Len(responses') = Len(responses)
              /\ \A j \in 1..Len(responses) :
                   Settleless(responses'[j]) = Settleless(responses[j])]_vars

\* the first round of a call over two providers has completed: the registry
\* holds the call's two nodes and nothing else, the first settled, the
\* second loading
C14_Witness ==
  \E i \in 1..Len(calls) :
    /\ calls[i].idx = 2
    /\ calls[i].closure = <<>>
    /\ Len(responses) = 2
    /\ responses[1].status = "success"
    /\ responses[2].status = "loading"
    /\ responses[1].id # responses[2].id

\* the registry holds a loading node under the id
LoadingId(id) ==
  \E j \in 1..Len(responses) :
    responses[j].id = id /\ responses[j].status = "loading"

\* the registry holds a loading node under the id, and a running call has
\* the round of that node's provider still before it
Awaited(id) ==
  \E j \in 1..Len(responses) :
    /\ responses[j].id = id
    /\ responses[j].status = "loading"
    /\ \E i \in 1..Len(calls) :
         \E k \in calls[i].idx..Len(calls[i].providers) :
           calls[i].providers[k] = responses[j].provider

EntriesWithId(id, n) == Cardinality({i \in 1..n : timeline[i].id = id})

\* the step puts one new entry in front of the timeline and keeps the older
\* entries behind it, in their order
RecordsInFront ==
  /\ Len(timeline') = Len(timeline) + 1
  /\ Tail(timeline') = timeline

\* C17: recording an entry (addTimelineEntry, the end of a call) puts it at
\* index 0 and keeps the others in their order; removeTimelineEntry(id) takes
\* out the entries with that id, no other, and keeps the order of the rest;
\* so the timeline always has the entries recorded later in front.
C17_LedgerNewestFirst ==
  /\ [][timeline' # timeline =>
          /\ \A e \in EntryInputs : AddTimelineEntry(e) =>
               /\ RecordsInFront
               /\ Head(timeline').prompt = e.prompt
               /\ Head(timeline').tags = e.tags
          /\ \A i \in 1..Len(calls) : ProviderResolves(i) => RecordsInFront
          /\ \A id \in 1..(nextId - 1) : RemoveTimelineEntry(id) =>
               /\ Len(timeline') = Len(timeline) - EntriesWithId(id, Len(timeline))
               /\ \A j \in 1..Len(timeline) :
                    timeline[j].id # id =>
                      timeline'[j - EntriesWithId(id, j)] = timeline[j]]_vars
  /\ [](\A i \in 1..Len(timeline) : \A j \in i..Len(timeline) :
          timeline[i].timestamp >= timeline[j].timestamp)

\* three entries were recorded and the second of them was removed: the
\* third recorded is in front of the first recorded
C17_Witness ==
  /\ Len(timeline) = 2
  /\ timeline[1].id = 3
  /\ timeline[2].id = 1

\* two characters that are the same letter
SameLetter(a, b) ==
  \/ a = b
  \/ {a, b} \in {{"A", "a"}, {"B", "b"}, {"E", "e"}, {"G", "g"}, {"O", "o"}, {"T", "t"}}

\* q occurs in s when case is ignored
OccursIgnoringCase(q, s) ==
  \E off \in 0..(Len(s) - Len(q)) :
    \A k \in 1..Len(q) : SameLetter(s[off + k], q[k])

\* the entry is one the search asks for
Asked(entry) ==
  /\ \/ searchQuery = <<>>
     \/ OccursIgnoringCase(searchQuery, entry.prompt)
     \/ \E k \in 1..Len(entry.tags) : OccursIgnoringCase(searchQuery, Chars(entry.tags[k]))
     \/ \E k \in 1..Len(entry.providers) :
          OccursIgnoringCase(searchQuery, Chars(entry.providers[k]))
  /\ \/ selectedTag = <<>>
     \/ \E k \in 1..Len(entry.tags) : entry.tags[k] = selectedTag[1]

\* how many of the first n entries of the timeline the search asks for
AskedUpTo(n) == Cardinality({i \in 1..n : Asked(timeline[i])})

\* C18: the search returns, in the order of the timeline, exactly the
\* entries whose prompt, some tag or some provider contains the query when
\* case is ignored (or the query is empty) and whose tags contain the
\* selected tag (or none is selected); with an empty query and no tag it
\* returns the timeline itself.
C18_SearchReturnsTheAsked ==
  LET found == filteredEntries(timeline, searchQuery, selectedTag)
  IN /\ Len(found) = AskedUpTo(Len(timeline))
     /\ \A j \in 1..Len(timeline) :
          Asked(timeline[j]) => found[AskedUpTo(j)] = timeline[j]
     /\ (searchQuery = <<>> /\ selectedTag = <<>>) => found = timeline

\* a query in capitals and a selected tag: the search finds the second of
\* three entries and no other
C18_Witness ==
  /\ searchQuery = <<"G", "O">>
  /\ selectedTag = <<"t">>
  /\ Len(timeline) = 3
  /\ filteredEntries(timeline, searchQuery, selectedTag) = <<timeline[2]>>

\* new is old with the fields of updates set and every other field kept
OnlyGivenFieldsChanged(old, new, updates) ==
  /\ DOMAIN new = (DOMAIN old) \cup (DOMAIN updates)
  /\ \A f \in DOMAIN updates : new[f] = updates[f]
  /\ \A f \in (DOMAIN old) \ (DOMAIN updates) : new[f] = old[f]

\* C19: a link the panel creates between two different nodes is appended
\* with status pending; updateCorrectionLink(id, {status, feedback}) sets
\* these two fields of the links with that id and keeps their id, endpoints,
\* provider labels, correction type and timestamp, and keeps every other
\* link, and the order of all links.
C19_LinkStartsPendingUpdateIsLocal ==
  [][correctionLinks' # correctionLinks =>
       /\ \A s \in NodeIds, t \in NodeIds, k \in CorrectionTypes :
            HandleCreateLink(s, t, k) =>
              /\ Len(correctionLinks') = Len(correctionLinks) + 1
              /\ correctionLinks'[Len(correctionLinks')].status = "pending"
              /\ "feedback" \notin DOMAIN correctionLinks'[Len(correctionLinks')]
       /\ \A id \in 1..(nextId - 1), u \in LinkUpdates :
            UpdateCorrectionLink(id, u) =>
              /\ Len(correctionLinks') = Len(correctionLinks)
              /\ \A l \in 1..Len(correctionLinks) :
                   IF correctionLinks[l].id = id
                   THEN OnlyGivenFieldsChanged(correctionLinks[l], correctionLinks'[l], u)
                   ELSE correctionLinks'[l] = correctionLinks[l]]_vars

\* a link between two different nodes of the registry has been completed
\* with feedback: it has the timestamp and the id it was created with
C19_Witness ==
  \E l \in 1..Len(correctionLinks) :
    /\ correctionLinks[l].sourceNodeId \in NodeIds
    /\ correctionLinks[l].targetNodeId \in NodeIds
    /\ correctionLinks[l].sourceNodeId # correctionLinks[l].targetNodeId
    /\ correctionLinks[l].status = "completed"
    /\ "feedback" \in DOMAIN correctionLinks[l]
    /\ correctionLinks[l].timestamp = correctionLinks[l].id
    /\ correctionLinks[l].timestamp < nextId

LinkIds == {correctionLinks[i].id : i \in 1..Len(correctionLinks)}

EntryIds == {timeline[i].id : i \in 1..Len(timeline)}

\* C20: updateResponse and removeResponse with an id no node has,
\* updateCorrectionLink and removeCorrectionLink with an id no link has, and
\* removeTimelineEntry with an id no entry has, change neither the registry
\* nor the links nor the timeline.  (None of the five draws an id or begins
\* or ends a call, so a step that does is none of them.)
C20_AbsentIdChangesNothing ==
  [][(nextId' = nextId /\ calls' = calls
        /\ <<responses, correctionLinks, timeline>>' # <<responses, correctionLinks, timeline>>) =>
       \A id \in 1..(nextId - 1) :
         /\ id \notin NodeIds =>
              /\ RemoveResponse(id) => UNCHANGED <<responses, correctionLinks, timeline>>
              /\ \A u \in NodeUpdates :
                   UpdateResponse(id, u) => UNCHANGED <<responses, correctionLinks, timeline>>
         /\ id \notin LinkIds =>
              /\ RemoveCorrectionLink(id) => UNCHANGED <<responses, correctionLinks, timeline>>
              /\ \A u \in LinkUpdates :
                   UpdateCorrectionLink(id, u) =>
                     UNCHANGED <<responses, correctionLinks, timeline>>
         /\ id \notin EntryIds =>
              (RemoveTimelineEntry(id) => UNCHANGED <<responses, correctionLinks, timeline>>)]_vars

\* the registry holds a node, a link starts or ends at it, and one id that
\* was handed out belongs to no node, no link and no entry any more
C20_Witness ==
  /\ responses # <<>>
  /\ \E l \in 1..Len(correctionLinks) :
       \/ correctionLinks[l].sourceNodeId \in NodeIds
       \/ correctionLinks[l].targetNodeId \in NodeIds
  /\ \E id \in 1..(nextId - 1) : id \notin NodeIds \cup LinkIds \cup EntryIds

\* C21: the store is a map from provider to at most one secret.  On a medium
\* that is available, saveKey(p, k) makes getKey(p) return k and deleteKey(p)
\* makes it return null; neither changes what is stored for another
\* provider, and nothing else changes the store, so getKey(p) is the secret
\* saved last for p unless p was deleted since; hasKey(p) holds exactly when
\* getKey(p) is not null.  (On a medium that is not available both are
\* no-ops: C23.)
C21_StoreIsAMap ==
  /\ [][storage' # storage =>
          /\ \/ \E p \in AllProviders, k \in ApiKeys : SaveKey(p, k)
             \/ \E p \in AllProviders : DeleteKey(p)
          /\ \A p \in AllProviders, k \in ApiKeys :
               SaveKey(p, k) =>
                 /\ mediumUp
                 /\ getKey(storage', mediumUp', p) = <<k>>
                 /\ \A q \in AllProviders \ {p} : storage'[q] = storage[q]
          /\ \A p \in AllProviders :
               DeleteKey(p) =>
                 /\ mediumUp
                 /\ getKey(storage', mediumUp', p) = <<>>
                 /\ \A q \in AllProviders \ {p} : storage'[q] = storage[q]]_vars
  /\ [](\A p \in AllProviders :
          /\ Len(storage[p]) <= 1
          /\ hasKey(storage, mediumUp, p) <=> (mediumUp /\ Len(storage[p]) = 1))

\* three providers have a secret, the fourth has none, and one of the
\* secrets is the empty string
C21_Witness ==
  /\ mediumUp
  /\ getKey(storage, mediumUp, "openai") = << <<"j">> >>
  /\ getKey(storage, mediumUp, "gemini") = << <<"k">> >>
  /\ getKey(storage, mediumUp, "deepseek") = << <<>> >>
  /\ ~hasKey(storage, mediumUp, "qwen")

\* the place of a provider in the order openai, gemini, deepseek, qwen
Rank(provider) ==
  CASE provider = "openai" -> 1
    [] provider = "gemini" -> 2
    [] provider = "deepseek" -> 3
    [] provider = "qwen" -> 4

\* C22: getSavedProviders returns exactly the providers that have a stored
\* key, each once, in the order openai, gemini, deepseek, qwen, in whatever
\* order the keys were saved.
C22_SavedProvidersInFixedOrder ==
  LET saved == getSavedProviders(storage, mediumUp)
  IN /\ {saved[i] : i \in 1..Len(saved)}
          = {p \in AllProviders : hasKey(storage, mediumUp, p)}
     /\ \A i, j \in 1..Len(saved) : i < j => Rank(saved[i]) < Rank(saved[j])

\* keys are stored for qwen, deepseek and openai, and not for gemini
C22_Witness ==
  /\ mediumUp
  /\ getKey(storage, mediumUp, "gemini") = <<>>
  /\ getSavedProviders(storage, mediumUp) = <<"openai", "deepseek", "qwen">>

\* C23: while the storage medium is not available saveKey and deleteKey
\* change nothing and getKey returns null for every provider; the failure
\* stays inside the operation, so the handler that saves runs on to its end;
\* the registry, the ledger and the graph are as before.
C23_UnavailableMediumIsHarmless ==
  /\ [](~mediumUp =>
          /\ \A p \in AllProviders :
               /\ getKey(storage, mediumUp, p) = <<>>
               /\ ~hasKey(storage, mediumUp, p)
               /\ deleteKey(storage, mediumUp, p) = storage
               /\ \A k \in ApiKeys : saveKey(storage, mediumUp, p, k) = storage
          /\ getSavedProviders(storage, mediumUp) = <<>>)
  /\ [][~mediumUp =>
          /\ storage' = storage
          /\ UNCHANGED <<responses, timeline, correctionLinks>>
          /\ ValidationResolves("ok") =>
               /\ validationResult' = <<ValidatorResult(validating[1].provider, "ok")>>
               /\ apiKey' = <<>>
               /\ validating' = <<>>
          /\ \A p \in AllProviders : HandleRemoveProvider(p) => UNCHANGED vars]_vars

\* the medium is not available; a key of openai is in it, and a validation
\* of a key of gemini has ended well with no key of gemini stored
C23_Witness ==
  /\ ~mediumUp
  /\ storage["openai"] = << <<"k">> >>
  /\ storage["gemini"] = <<>>
  /\ validating = <<>>
  /\ validationResult = <<ValidatorResult("gemini", "ok")>>

\* a key with nothing in it but spaces
Blank(key) == \A i \in 1..Len(key) : key[i] = " "

\* C24 as the specification words it: the failure carries the reason
\* "empty credential"
C24_EmptyKeyReasonIsEmptyCredential ==
  [][Blank(apiKey) /\ HandleValidateAndSave =>
       /\ validating' = <<>>
       /\ Len(validationResult') = 1
       /\ ~validationResult'[1].success
       /\ validationResult'[1].message = "empty credential"]_vars

\* C24: validating an empty or blank key of any provider returns the failure
\* "API key cannot be empty" for that provider, and no request to the
\* provider is started.
C24_EmptyKeyRejectedWithoutRequest ==
  [][Blank(apiKey) /\ HandleValidateAndSave =>
       /\ validating' = <<>>
       /\ Len(validationResult') = 1
       /\ ~validationResult'[1].success
       /\ validationResult'[1].message = "API key cannot be empty"
       /\ validationResult'[1].provider = selectedProvider
       /\ storage' = storage]_vars

\* a blank key of qwen has been rejected
C24_Witness ==
  /\ apiKey = <<" ">>
  /\ selectedProvider = "qwen"
  /\ validating = <<>>
  /\ Len(validationResult) = 1
  /\ validationResult[1].provider = "qwen"
  /\ validationResult[1].message = "API key cannot be empty"

\* C25: the dialog writes a key only when the validation of that provider
\* and key, the ones the handler was called with, has returned success; a
\* validation that fails leaves the stored key of every provider as it was.
C25_SavedOnlyAfterSuccess ==
  [][/\ \A p \in AllProviders :
          (storage'[p] # storage[p] /\ storage'[p] # <<>>) =>
             /\ validating # <<>>
             /\ validating[1].provider = p
             /\ storage'[p] = <<validating[1].apiKey>>
             /\ ~RejectedAtOnce(validating[1].apiKey)
             /\ validationResult' = <<ValidatorResult(p, "ok")>>
             /\ \A o \in AllProviders \ {p} : storage'[o] = storage[o]
     /\ \A o \in FetchOutcomes \ {"ok"} :
          ValidationResolves(o) => storage' = storage
     /\ (validationResult' # validationResult /\ validationResult' # <<>>
           /\ ~validationResult'[1].success) => storage' = storage]_vars

\* a key of gemini has been validated and saved, then the validation of a
\* key of openai was refused, and openai has no key
C25_Witness ==
  /\ mediumUp
  /\ storage["gemini"] = << <<"k">> >>
  /\ storage["openai"] = <<>>
  /\ selectedProvider = "openai"
  /\ apiKey = <<"j">>
  /\ validating = <<>>
  /\ validationResult = <<ValidatorResult("openai", "not ok")>>

\* C26: the ids of the nodes in the registry are pairwise distinct in every
\* state, and no updateResponse changes the id or the timestamp of a node.
C26_IdsDistinctAndFixed ==
  /\ [](\A i, j \in 1..Len(responses) :
          i # j => responses[i].id # responses[j].id)
  /\ [][responses' # responses =>
          \A id \in 1..(nextId - 1), u \in NodeUpdates \cup IdUpdates :
            UpdateResponse(id, u) =>
              \A j \in 1..Len(responses) :
                /\ responses'[j].id = responses[j].id
                /\ responses'[j].timestamp = responses[j].timestamp]_vars

\* C27: in every state a loading node has an empty response, and a node
\* whose status is success or error has a response that is not empty.
C27_OutputMatchesStatus ==
  \A j \in 1..Len(responses) :
    (responses[j].status = "loading") <=> (responses[j].response = "")

\* C28: the nodes one call of sendPromptToMultipleModels registers are one
\* for each provider it was given: no two of them have the same provider.
C28_OneNodePerProvider ==
  [][nextId' # nextId =>
       \A q \in Prompts, ps \in ProviderLists :
         (SendPrompt(q, ps) \/ (prompt = q /\ selectedProviders = ps /\ HandleSendPrompt)) =>
           /\ \A p \in Providers :
                Includes(ps, p) =>
                  Cardinality({j \in (Len(responses) + 1)..Len(responses') :
                                 responses'[j].provider = p}) = 1
           /\ \A j \in (Len(responses) + 1)..Len(responses') :
                Includes(ps, responses'[j].provider)]_vars

\* the running calls that Home has made
HomeCalls == {i \in 1..Len(calls) : calls[i].home}

C30_SendsOnlyToSavedProviders ==
  [][ClickSend =>
       \A k \in 1..Len(selectedProviders) :
         Includes(getSavedProviders(storage, mediumUp), selectedProviders[k])]_vars
====
